---- MODULE Spec2Model ----
(***************************************************************************)
(* Model of the test-servers repository: the dispatch router of            *)
(* src/index.js (getTargetURL, responseHandler, the SERVERS table) and the *)
(* fixtures of src/unnamed/part_000 (createRedirectServer, ...).           *)
(*                                                                         *)
(* JavaScript strings that the code inspects character by character (the   *)
(* request url, the location header) are sequences of one-character        *)
(* strings; strings the code only compares or uses as keys (method, header *)
(* values, base URLs) are TLA+ strings.                                    *)
(***************************************************************************)
EXTENDS Integers, Sequences, FiniteSets, TLC

\* SERVERS   the table of index.js: fixture name -> base URL of its listener,
\*           Undefined until the listener has emitted 'listening'
\* crashed   an exception left a listener uncaught and the process has died
\* exchange  the router's latest request with the effects of its handling,
\*           observed under the current SERVERS (empty after a change of it)
\* chain     per client of the redirect fixture: the url it started at, the
\*           url it requests next, the requests made with their effects, and
\*           whether it has stopped
\* inflight  per client of the router: the request proxy.web has forwarded
\*           for it and that its target has not handled yet
\* conns     per connection to the raw echo server: the socket's state
VARIABLES SERVERS, crashed, exchange, chain, inflight, conns

vars == <<SERVERS, crashed, exchange, chain, inflight, conns>>

(***************************************************************************)
(* JavaScript values                                                       *)
(***************************************************************************)
\* the value `undefined` where the code produces a base URL or a header value
Undefined == "undefined"

\* an object without own properties: the headers of a response written
\* without writeHead, the headers of a request that carries none
NoHeaders == <<>>

Digits == {"0", "1", "2", "3", "4", "5", "6", "7", "8", "9"}

\* \d of the regular expressions
IsDigit(c) == c \in Digits

DigitVal(c) ==
    CASE c = "0" -> 0 [] c = "1" -> 1 [] c = "2" -> 2 [] c = "3" -> 3
      [] c = "4" -> 4 [] c = "5" -> 5 [] c = "6" -> 6 [] c = "7" -> 7
      [] c = "8" -> 8 [] c = "9" -> 9

DigitChar(d) ==
    CASE d = 0 -> "0" [] d = 1 -> "1" [] d = 2 -> "2" [] d = 3 -> "3"
      [] d = 4 -> "4" [] d = 5 -> "5" [] d = 6 -> "6" [] d = 7 -> "7"
      [] d = 8 -> "8" [] d = 9 -> "9"

\* String.prototype.startsWith
StartsWith(s, p) ==
    /\ Len(p) <= Len(s)
    /\ SubSeq(s, 1, Len(p)) = p

\* index of the first occurrence of character c in s, 0 when there is none
IndexOf(s, c) ==
    IF \E i \in 1..Len(s) : s[i] = c
    THEN CHOOSE i \in 1..Len(s) : s[i] = c /\ \A j \in 1..(i - 1) : s[j] # c
    ELSE 0

\* url.replace(/(\?.*)/, ''): the url up to its first question mark
StripQuery(url) ==
    IF IndexOf(url, "?") = 0 THEN url ELSE SubSeq(url, 1, IndexOf(url, "?") - 1)

\* String.prototype.split with a one-character separator:
\* '/a/3'.split('/') is ['', 'a', '3']
RECURSIVE Split(_, _)
Split(s, sep) ==
    LET i == IndexOf(s, sep)
    IN  IF i = 0 THEN <<s>>
        ELSE <<SubSeq(s, 1, i - 1)>> \o Split(SubSeq(s, i + 1, Len(s)), sep)

\* Array.prototype.join with a one-character separator
RECURSIVE Join(_, _)
Join(tokens, sep) ==
    IF Len(tokens) = 0 THEN <<>>
    ELSE IF Len(tokens) = 1 THEN tokens[1]
    ELSE tokens[1] \o <<sep>> \o Join(Tail(tokens), sep)

\* Array.prototype.slice(0, -2)
SliceDropLast2(tokens) ==
    IF Len(tokens) <= 2 THEN <<>> ELSE SubSeq(tokens, 1, Len(tokens) - 2)

\* the value of the longest prefix of decimal digits of s, as parseInt(s, 10)
\* reads a token that begins with a digit
RECURSIVE DigitsValue(_, _)
DigitsValue(s, acc) ==
    IF Len(s) = 0 \/ ~IsDigit(Head(s)) THEN acc
    ELSE DigitsValue(Tail(s), 10 * acc + DigitVal(Head(s)))

\* parseInt(s, 10); -1 stands for NaN (a token that begins with no digit)
parseInt(s) ==
    IF Len(s) = 0 \/ ~IsDigit(Head(s)) THEN -1 ELSE DigitsValue(s, 0)

\* a non-negative integer interpolated in a template literal: its decimal
\* digits, without leading zeros
RECURSIVE NumToString(_)
NumToString(n) ==
    IF n < 10 THEN <<DigitChar(n)>>
    ELSE NumToString(n \div 10) \o <<DigitChar(n % 10)>>

(***************************************************************************)
(* Bounds and the inputs the model draws from                              *)
(***************************************************************************)
\* the longest redirect chain a client starts (hop segments "0".."MaxHops")
MaxHops == 3

\* url prefixes: '', '/a', '/a/b'
Prefixes == {<<>>, <<"/", "a">>, <<"/", "a", "/", "b">>}

\* hop segments: every count up to MaxHops, one with a leading zero, and a
\* two-digit one whose successor has one digit
HopSegments ==
    {NumToString(n) : n \in 0..MaxHops} \cup {<<"0", "3">>, <<"1", "0">>}

\* status segments of three digits: a redirect, a non-redirect, one with a
\* leading zero
CodeSegments == {<<"3", "0", "1">>, <<"2", "0", "0">>, <<"0", "3", "0">>}

\* <prefix>/<hops>/<code>
RedirectUrl(prefix, hops, code) == prefix \o <<"/">> \o hops \o <<"/">> \o code

\* urls that do not end in /<digits>/<three digits>
OtherUrls ==
    { <<"/">>,
      <<"/", "a", "/">>,
      <<"/", "a", "/", "b">>,
      <<"/", "a", "/", "3", "/", "3", "0">>,
      <<"/", "a", "/", "3", "/", "3", "0", "1", "1">>,
      <<"/", "a", "/", "x", "/", "3", "0", "1">>,
      <<"/", "a", "/", "3", "/", "3", "0", "1", "?", "x">>,
      <<"/", "a", "/", "3", "/", "3", "0", "1", "/">> }

\* the urls clients request from the redirect fixture
ChainUrls ==
    { RedirectUrl(p, h, c) : p \in Prefixes, h \in HopSegments, c \in CodeSegments }
        \cup OtherUrls

Clients == {"c1", "c2"}

(***************************************************************************)
(* createRedirectServer                                                    *)
(***************************************************************************)
\* TestRedirect without the $ anchor: (/\/\d+\/\d{3}/).test(url)
TestRedirect_NoEndAnchor(url) ==
    \E n \in 6..Len(url) :
        /\ \A k \in (n - 2)..n : IsDigit(url[k])
        /\ url[n - 3] = "/"
        /\ \E j \in 1..(n - 5) :
              /\ url[j] = "/"
              /\ \A k \in (j + 1)..(n - 4) : IsDigit(url[k])

\* (/\/\d+\/\d{3}$/).test(url)
TestRedirect(url) ==
    LET n == Len(url)
    IN  /\ n >= 6
        /\ \A k \in (n - 2)..n : IsDigit(url[k])
        /\ url[n - 3] = "/"
        /\ \E j \in 1..(n - 5) :
              /\ url[j] = "/"
              /\ \A k \in (j + 1)..(n - 4) : IsDigit(url[k])

\* http.ServerResponse.writeHead: a status code outside 100..999 throws a
\* RangeError; otherwise the status line and the headers are written
writeHead(statusCode, headers) ==
    IF statusCode < 100 \/ statusCode > 999
    THEN <<[ev |-> "throw", error |-> "RangeError"]>>
    ELSE <<[ev |-> "writeHead", status |-> statusCode, headers |-> headers]>>

\* redirectURL with the hop test off by one (numberOfRedirects > 0)
redirectURL_HopTestOffByOne(url) ==
    LET urlTokens == Split(url, "/")
        numberOfRedirects == parseInt(urlTokens[Len(urlTokens) - 1])
        responseCode == parseInt(urlTokens[Len(urlTokens)])
    IN  IF numberOfRedirects > 0
        THEN Join(SliceDropLast2(urlTokens), "/") \o <<"/">>
                 \o NumToString(numberOfRedirects - 1) \o <<"/">>
                 \o NumToString(responseCode)
        ELSE Join(SliceDropLast2(urlTokens), "/") \o <<"/">>

\* the location the handler computes for a url that matches the pattern
redirectURL(url) ==
    LET urlTokens == Split(url, "/")
        numberOfRedirects == parseInt(urlTokens[Len(urlTokens) - 1])
        responseCode == parseInt(urlTokens[Len(urlTokens)])
    IN  IF numberOfRedirects > 1
        THEN Join(SliceDropLast2(urlTokens), "/") \o <<"/">>
                 \o NumToString(numberOfRedirects - 1) \o <<"/">>
                 \o NumToString(responseCode)
        ELSE Join(SliceDropLast2(urlTokens), "/") \o <<"/">>

\* redirectHandler with the hit emitted after the pattern test
redirectHandler_HitAfterTest(req) ==
    LET hit == <<[ev |-> "hit", req |-> req]>>
        urlTokens == Split(req.url, "/")
        responseCode == parseInt(urlTokens[Len(urlTokens)])
        head == writeHead(responseCode, [location |-> redirectURL(req.url)])
    IN  IF ~TestRedirect(req.url) THEN <<[ev |-> "end"]>>
        ELSE IF head[1].ev = "throw" THEN hit \o head
        ELSE hit \o head \o <<[ev |-> "end"]>>

\* the 'request' listener of the redirect server: the effects of one call,
\* in order; a throw ends the call
redirectHandler(req) ==
    LET hit == <<[ev |-> "hit", req |-> req]>>
        urlTokens == Split(req.url, "/")
        responseCode == parseInt(urlTokens[Len(urlTokens)])
        head == writeHead(responseCode, [location |-> redirectURL(req.url)])
    IN  IF ~TestRedirect(req.url) THEN hit \o <<[ev |-> "end"]>>
        ELSE IF head[1].ev = "throw" THEN hit \o head
        ELSE hit \o head \o <<[ev |-> "end"]>>

\* whether a call threw (nothing catches it: the process dies)
Threw(events) == \E i \in 1..Len(events) : events[i].ev = "throw"

\* the bytes a call wrote with res.write, in order
RECURSIVE BodyOf(_)
BodyOf(events) ==
    IF Len(events) = 0 THEN <<>>
    ELSE (IF Head(events).ev = "write" THEN Head(events).data ELSE <<>>)
             \o BodyOf(Tail(events))

\* what the peer reads off the socket after a call: nothing when the call
\* threw; otherwise the status of writeHead (200 without one), its headers
\* and the body written
ResponseOf(events) ==
    IF Threw(events) THEN [kind |-> "none"]
    ELSE IF \E i \in 1..Len(events) : events[i].ev = "writeHead"
    THEN LET i == CHOOSE i \in 1..Len(events) : events[i].ev = "writeHead"
         IN  [kind |-> "response", status |-> events[i].status,
              headers |-> events[i].headers, body |-> BodyOf(events)]
    ELSE [kind |-> "response", status |-> 200, headers |-> NoHeaders,
          body |-> BodyOf(events)]

(***************************************************************************)
(* A client following redirect chains at the redirect fixture              *)
(***************************************************************************)
\* a client that has not started: nothing to request
IdleChain == [start |-> <<>>, url |-> <<>>, hist |-> <<>>, done |-> TRUE]

\* a client about to request url u
NewChain(u) == [start |-> u, url |-> u, hist |-> <<>>, done |-> FALSE]

\* the request a client sends for a url
ClientRequest(u) == [method |-> "GET", url |-> u, headers |-> NoHeaders]

HasLocation(res) == res.kind = "response" /\ "location" \in DOMAIN res.headers

\* the location a client is sent to from url u, u itself when there is none
NextUrl(u) ==
    LET res == ResponseOf(redirectHandler(ClientRequest(u)))
    IN  IF HasLocation(res) THEN res.headers.location ELSE u

\* the urls a client can come to request: the starting urls and the
\* locations the fixture sends it to from them
RECURSIVE Followed(_)
Followed(urls) ==
    LET more == urls \cup {NextUrl(u) : u \in urls}
    IN  IF more = urls THEN urls ELSE Followed(more)

\* the listener's effects for each of those urls (the listener reads
\* nothing but the request, so the call is tabulated once)
redirectEvents ==
    [u \in Followed(ChainUrls) |-> redirectHandler(ClientRequest(u))]

\* client c requests its current url from the redirect fixture, the
\* 'request' listener runs, and the client takes the location of the
\* response, when it carries one, as its next url
ChainStep(c) ==
    /\ ~crashed
    /\ ~chain[c].done
    /\ LET events == redirectEvents[chain[c].url]
           res == ResponseOf(events)
       IN  /\ chain' = [chain EXCEPT ![c] =
                  [start |-> @.start,
                   url |-> IF HasLocation(res) THEN res.headers.location ELSE @.url,
                   hist |-> Append(@.hist, [url |-> @.url, events |-> events]),
                   done |-> ~HasLocation(res)]]
           /\ crashed' = Threw(events)
    /\ UNCHANGED <<SERVERS, exchange, inflight, conns>>

(***************************************************************************)
(* The SERVERS table and the dispatch router of index.js                   *)
(***************************************************************************)
\* the own keys of SERVERS once index.js has run
FixtureNames == {"raw", "bytes", "redirect", "graphql", "ssl_renegotiation"}

\* names every object inherits from Object.prototype: SERVERS[name] is that
\* inherited member, a function or an object without a url
PrototypeKeys == {"constructor", "toString", "__proto__"}

\* values of the target-server request header
TargetServerValues == FixtureNames \cup {"constructor", "unknown"}

\* base URLs of the listeners bound to the fixed ports of CONFIG
RawURL == "http://localhost:8082"
SSLRenegotiationURL == "https://localhost:9091"

\* base URLs of listeners bound to a port the system assigns
EphemeralURLs ==
    {"http://localhost:49152", "http://localhost:49153", "http://localhost:49154"}

\* the base URLs the 'listening' handler of a fixture can set
ListenURLs(name) ==
    CASE name = "raw" -> {RawURL}
      [] name = "ssl_renegotiation" -> {SSLRenegotiationURL}
      [] OTHER -> EphemeralURLs \ {SERVERS[n] : n \in FixtureNames}

\* Listening for a listener that binds again: the handler runs whether or
\* not server.url is already set
Listening_Rebinds(name, url) ==
    /\ ~crashed
    /\ url \in ListenURLs(name)
    /\ SERVERS' = [SERVERS EXCEPT ![name] = url]
    /\ exchange' = {}
    /\ UNCHANGED <<crashed, chain, inflight, conns>>

\* the 'listening' handler of fixture `name`: server.url is set
Listening(name, url) ==
    /\ ~crashed
    /\ SERVERS[name] = Undefined
    /\ url \in ListenURLs(name)
    /\ SERVERS' = [SERVERS EXCEPT ![name] = url]
    /\ exchange' = {}
    /\ UNCHANGED <<crashed, chain, inflight, conns>>

\* req.headers['target-server']
TargetServerHeader(req) ==
    IF "target-server" \in DOMAIN req.headers
    THEN req.headers["target-server"] ELSE Undefined

\* whether SERVERS[key] is truthy: an own entry (a server object) or a member
\* inherited from Object.prototype
HasTarget(key) == key \in FixtureNames \/ key \in PrototypeKeys

\* SERVERS[key].url for a truthy SERVERS[key]
TargetURLOf(key) == IF key \in FixtureNames THEN SERVERS[key] ELSE Undefined

RawPath == <<"/", "r", "a", "w">>
RawPrefix == <<"/", "r", "a", "w", "/">>
GraphQLPath == <<"/", "g", "r", "a", "p", "h", "q", "l">>
BytesPrefix == <<"/", "b", "y", "t", "e", "s", "/">>

\* TestBytes without the ^ anchor: (/\/bytes\/\d+$/).test(path)
TestBytes_Unanchored(path) ==
    \E i \in 1..Len(path) :
        LET tail == SubSeq(path, i, Len(path))
        IN  /\ StartsWith(tail, BytesPrefix)
            /\ Len(tail) > Len(BytesPrefix)
            /\ \A k \in (Len(BytesPrefix) + 1)..Len(tail) : IsDigit(tail[k])

\* (/^\/bytes\/\d+$/).test(path)
TestBytes(path) ==
    /\ StartsWith(path, BytesPrefix)
    /\ Len(path) > Len(BytesPrefix)
    /\ \A k \in (Len(BytesPrefix) + 1)..Len(path) : IsDigit(path[k])

\* getTargetURL with the path heuristics tried before the header
getTargetURL_PathFirst(req) ==
    LET path == req.url
        key == TargetServerHeader(req)
    IN  IF path = RawPath \/ StartsWith(path, RawPrefix) THEN SERVERS["raw"]
        ELSE IF path = GraphQLPath THEN SERVERS["graphql"]
        ELSE IF TestRedirect(path) THEN SERVERS["redirect"]
        ELSE IF TestBytes(path) THEN SERVERS["bytes"]
        ELSE IF HasTarget(key) THEN TargetURLOf(key)
        ELSE Undefined

\* getTargetURL sending every path it does not recognise to the redirect
\* server
getTargetURL_RedirectByDefault(req) ==
    LET path == req.url
        key == TargetServerHeader(req)
    IN  IF HasTarget(key) THEN TargetURLOf(key)
        ELSE IF path = RawPath \/ StartsWith(path, RawPrefix) THEN SERVERS["raw"]
        ELSE IF path = GraphQLPath THEN SERVERS["graphql"]
        ELSE IF TestBytes(path) THEN SERVERS["bytes"]
        ELSE SERVERS["redirect"]

\* getTargetURL with the raw fixture's URL built from its configured port
\* instead of read from the server object
getTargetURL_RawFromConfig(req) ==
    LET path == req.url
        key == TargetServerHeader(req)
    IN  IF HasTarget(key) THEN TargetURLOf(key)
        ELSE IF path = RawPath \/ StartsWith(path, RawPrefix) THEN RawURL
        ELSE IF path = GraphQLPath THEN SERVERS["graphql"]
        ELSE IF TestRedirect(path) THEN SERVERS["redirect"]
        ELSE IF TestBytes(path) THEN SERVERS["bytes"]
        ELSE Undefined

getTargetURL(req) ==
    LET path == req.url
        key == TargetServerHeader(req)
    IN  IF HasTarget(key) THEN TargetURLOf(key)
        ELSE IF path = RawPath \/ StartsWith(path, RawPrefix) THEN SERVERS["raw"]
        ELSE IF path = GraphQLPath THEN SERVERS["graphql"]
        ELSE IF TestRedirect(path) THEN SERVERS["redirect"]
        ELSE IF TestBytes(path) THEN SERVERS["bytes"]
        ELSE Undefined

\* JSON.stringify of {url, method, headers}: the members in that order
EchoBody(req) ==
    <<[key |-> "url", value |-> req.url],
      [key |-> "method", value |-> req.method],
      [key |-> "headers", value |-> req.headers]>>

\* the headers of the echo response
EchoHeaders == [h \in {"content-type"} |-> "application/json"]

\* responseHandler without the return after proxy.web
responseHandler_NoReturn(req) ==
    LET target == getTargetURL(req)
        echo == <<[ev |-> "writeHead", status |-> 200, headers |-> EchoHeaders],
                  [ev |-> "end", body |-> EchoBody(req)]>>
    IN  IF target # Undefined
        THEN <<[ev |-> "proxy.web", target |-> target, req |-> req]>> \o echo
        ELSE echo

\* the 'request' listener of the router: the effects of one call, in order
responseHandler(req) ==
    LET target == getTargetURL(req)
    IN  IF target # Undefined
        THEN <<[ev |-> "proxy.web", target |-> target, req |-> req]>>
        ELSE <<[ev |-> "writeHead", status |-> 200, headers |-> EchoHeaders],
               [ev |-> "end", body |-> EchoBody(req)]>>

\* the router handles request req
HandleRequest(req) ==
    /\ ~crashed
    /\ exchange' = {[req |-> req, events |-> responseHandler(req)]}
    /\ UNCHANGED <<SERVERS, crashed, chain, inflight, conns>>

\* urls of the requests the router receives
RouterUrls ==
    { RawPath,
      RawPrefix,
      RawPath \o <<"x">>,
      RawPath \o <<"?", "x">>,
      RawPrefix \o <<"3", "/", "3", "0", "1">>,
      GraphQLPath,
      GraphQLPath \o <<"/">>,
      GraphQLPath \o <<"?", "x">>,
      <<"/", "3", "/", "3", "0", "1">>,
      <<"/", "a", "/", "3", "/", "3", "0", "1">>,
      <<"/", "3", "/", "3", "0", "1", "?", "x">>,
      BytesPrefix,
      BytesPrefix \o <<"1", "0">>,
      BytesPrefix \o <<"1", "0", "?", "x">>,
      <<"/", "x">> \o BytesPrefix \o <<"5">>,
      <<"/", "x", "?", "/", "3", "/", "3", "0", "1">>,
      <<"/">>,
      <<"/", "a", "/", "b">> }

RequestHeaders ==
    {NoHeaders} \cup {[h \in {"target-server"} |-> v] : v \in TargetServerValues}

Requests ==
    [method : {"GET", "HEAD"}, url : RouterUrls, headers : RequestHeaders]

(***************************************************************************)
(* createBytesServer                                                       *)
(***************************************************************************)
\* Number(s) for the tokens of this model: the value of a token of decimal
\* digits, 0 for the empty token, NaN (-1) for a token that begins with a
\* letter
Number(s) ==
    IF Len(s) = 0 THEN 0
    ELSE IF \A k \in 1..Len(s) : IsDigit(s[k]) THEN DigitsValue(s, 0)
    ELSE -1

\* Buffer.alloc(size): size zero bytes
BufferAlloc(size) == [i \in 1..size |-> 0]

\* bytesHandler reading the segment after the first slash, not the last one
bytesHandler_FirstSegment(req) ==
    LET path == Split(req.url, "/")
        size == Number(path[2])
        bytes == IF size = -1 \/ size = 0 THEN 0 ELSE size
    IN  writeHead(200, NoHeaders)
            \o <<[ev |-> "write", data |-> BufferAlloc(bytes)], [ev |-> "end"]>>

\* the 'request' listener of the bytes server: the effects of one call
\* (Number(...) || 0 is 0 for NaN and for 0)
bytesHandler(req) ==
    LET path == Split(req.url, "/")
        size == Number(path[Len(path)])
        bytes == IF size = -1 \/ size = 0 THEN 0 ELSE size
    IN  writeHead(200, NoHeaders)
            \o <<[ev |-> "write", data |-> BufferAlloc(bytes)], [ev |-> "end"]>>

(***************************************************************************)
(* A client following locations through the router                         *)
(***************************************************************************)
\* urls of the bytes fixture
BytesUrls ==
    { BytesPrefix \o <<"0">>,
      BytesPrefix \o <<"5">>,
      BytesPrefix \o <<"1", "0">>,
      BytesPrefix \o <<"0", "1", "0">>,
      BytesPrefix }

\* the urls a client starts at through the router
RoutedUrls ==
    ChainUrls \cup BytesUrls
        \cup { RawPath, GraphQLPath,
               RawPrefix \o <<"2", "/", "3", "0", "1">>,
               <<"/", "x">> \o BytesPrefix \o <<"5">> }

\* the tables of index.js once every listener has bound
ListeningTables ==
    { t \in [FixtureNames -> EphemeralURLs \cup {RawURL, SSLRenegotiationURL}] :
        /\ t["raw"] = RawURL
        /\ t["ssl_renegotiation"] = SSLRenegotiationURL
        /\ \A n \in {"bytes", "redirect", "graphql"} : t[n] \in EphemeralURLs
        /\ t["bytes"] # t["redirect"]
        /\ t["bytes"] # t["graphql"]
        /\ t["redirect"] # t["graphql"] }

\* the 'request' listener of the server behind base URL target; the
\* listeners of the raw, graphql and renegotiation servers are left open here
FixtureEvents(target, req) ==
    IF target = SERVERS["redirect"] THEN redirectHandler(req)
    ELSE IF target = SERVERS["bytes"] THEN bytesHandler(req)
    ELSE <<[ev |-> "upstream", target |-> target]>>

\* the location of the response the target sends back through the proxy,
\* when its listener is modelled and the response carries one
ProxiedLocation(target, events) ==
    IF /\ target \in {SERVERS["redirect"], SERVERS["bytes"]}
       /\ HasLocation(ResponseOf(events))
    THEN {ResponseOf(events).headers.location}
    ELSE {}

\* client c requests its current url from the router and the router's
\* 'request' listener runs: the request is forwarded, or echoed to the
\* client, which then has no location to follow
RouterStep(c) ==
    /\ ~crashed
    /\ ~chain[c].done
    /\ inflight[c] = {}
    /\ LET req == ClientRequest(chain[c].url)
           routed == responseHandler(req)
       IN  IF routed[1].ev = "proxy.web"
           THEN /\ inflight' = [inflight EXCEPT ![c] =
                       {[target |-> routed[1].target, req |-> routed[1].req,
                         router |-> routed]}]
                /\ UNCHANGED chain
           ELSE /\ chain' = [chain EXCEPT ![c] =
                       [start |-> @.start,
                        url |-> @.url,
                        hist |-> Append(@.hist, [url |-> @.url, router |-> routed,
                                                 events |-> <<>>]),
                        done |-> TRUE]]
                /\ UNCHANGED inflight
    /\ UNCHANGED <<SERVERS, crashed, exchange, conns>>

\* the target of a forwarded request handles it and the proxy pipes the
\* response back to client c, which follows its location
FixtureStep(c) ==
    /\ ~crashed
    /\ inflight[c] # {}
    /\ LET m == CHOOSE m \in inflight[c] : TRUE
           events == FixtureEvents(m.target, m.req)
           location == ProxiedLocation(m.target, events)
       IN  /\ chain' = [chain EXCEPT ![c] =
                  [start |-> @.start,
                   url |-> IF location # {} THEN CHOOSE l \in location : TRUE
                           ELSE @.url,
                   hist |-> Append(@.hist, [url |-> m.req.url, router |-> m.router,
                                            events |-> events]),
                   done |-> location = {}]]
           /\ crashed' = Threw(events)
    /\ inflight' = [inflight EXCEPT ![c] = {}]
    /\ UNCHANGED <<SERVERS, exchange, conns>>

(***************************************************************************)
(* createRawEchoServer                                                     *)
(***************************************************************************)
\* the most chunks a request message arrives in
MaxChunks == 3

Conns == {"k1", "k2"}

CRLF == <<"\r", "\n">>
HTTP11 == <<" ", "H", "T", "T", "P", "/", "1", ".", "1">>
HEAD == <<"H", "E", "A", "D">>
GET == <<"G", "E", "T">>

\* 'HEAD / HTTP/1.1'
HeadRootLine == HEAD \o <<" ", "/">> \o HTTP11

\* a request message: request line, empty header block, body
RawMessage(method, path, body) ==
    method \o <<" ">> \o path \o HTTP11 \o CRLF \o CRLF \o body

\* the messages the raw echo server receives, among them HEAD /raw as the
\* router's proxy writes it for a HEAD request it forwards
RawMessages ==
    { RawMessage(HEAD, <<"/">>, <<>>),
      RawMessage(HEAD, RawPath, <<>>),
      RawMessage(GET, <<"/">>, <<>>),
      RawMessage(GET, RawPath, <<"h", "i">>) }

\* where the stream may cut a message into chunks: inside the method, after
\* six characters, before the final line break
CutPoints(msg) == {2, 6, Len(msg) - 2}

\* msg cut after the positions in cuts
RECURSIVE Pieces(_, _)
Pieces(msg, cuts) ==
    IF cuts = {} THEN <<msg>>
    ELSE LET first == CHOOSE x \in cuts : \A y \in cuts : x <= y
         IN  <<SubSeq(msg, 1, first)>>
                 \o Pieces(SubSeq(msg, first + 1, Len(msg)),
                           {x - first : x \in cuts \ {first}})

\* the ways a message arrives: in at most MaxChunks chunks
Chunkings(msg) ==
    { Pieces(msg, cuts) :
        cuts \in {k \in SUBSET CutPoints(msg) : Cardinality(k) < MaxChunks} }

\* all chunks of a sequence, concatenated
RECURSIVE Concat(_)
Concat(chunks) ==
    IF Len(chunks) = 0 THEN <<>> ELSE Head(chunks) \o Concat(Tail(chunks))

\* a connection on which nothing has happened
IdleConn ==
    [todo |-> <<>>, arrived |-> <<>>, data |-> {}, timers |-> 0,
     out |-> <<>>, firedAfter |-> <<>>]

\* a connection whose peer is about to send chunks:
\*   todo the chunks still to arrive, arrived those delivered so far,
\*   data the socket's data property ({} while undefined), timers the
\*   pending setTimeout callbacks, out what has been done to the socket, in
\*   order, firedAfter how many chunks had arrived at each callback
NewConn(chunks) == [IdleConn EXCEPT !.todo = chunks]

\* JSON.stringify of a string: quoted, with quotes, backslashes and line
\* breaks escaped
JSONEscape(c) ==
    CASE c = "\"" -> <<"\\", "\"">>
      [] c = "\\" -> <<"\\", "\\">>
      [] c = "\r" -> <<"\\", "r">>
      [] c = "\n" -> <<"\\", "n">>
      [] OTHER -> <<c>>

RECURSIVE JSONEscaped(_)
JSONEscaped(str) ==
    IF Len(str) = 0 THEN <<>> ELSE JSONEscape(Head(str)) \o JSONEscaped(Tail(str))

JSONStringify(str) == <<"\"">> \o JSONEscaped(str) \o <<"\"">>

\* socket.write(pre + text + post), pre and post literal
SocketWrite(pre, text, post) ==
    [ev |-> "write", pre |-> pre, text |-> text, post |-> post]

\* the setTimeout callback for a socket whose data is `data`
EchoEvents(data) ==
    <<SocketWrite("HTTP/1.1 200 ok\r\n", <<>>, ""),
      SocketWrite("connection: close\r\n", <<>>, ""),
      SocketWrite("content-type: text/plain\r\n", <<>>, ""),
      SocketWrite("raw-request: ", JSONStringify(data), "\r\n"),
      SocketWrite("\r\n", <<>>, "")>>
        \o (IF ~StartsWith(data, HeadRootLine)
            THEN <<SocketWrite("", data, "")>> ELSE <<>>)
        \o <<[ev |-> "end"]>>

\* the 'data' listener without its return: every chunk replaces data and
\* sets a timer
DataArrives_NoReturn(k) ==
    /\ conns[k].todo # <<>>
    /\ conns' = [conns EXCEPT ![k] =
           [@ EXCEPT !.todo = Tail(@),
                     !.arrived = Append(@, Head(conns[k].todo)),
                     !.data = {Head(conns[k].todo)},
                     !.timers = @ + 1]]
    /\ UNCHANGED <<SERVERS, crashed, exchange, chain, inflight>>

\* the 'data' listener of connection k for the next chunk of its peer
\* (chunk.toString() of a chunk of ASCII characters)
DataArrives(k) ==
    /\ conns[k].todo # <<>>
    /\ LET chunk == Head(conns[k].todo)
       IN  conns' = [conns EXCEPT ![k] =
               IF @.data # {}
               THEN [@ EXCEPT !.todo = Tail(@),
                              !.arrived = Append(@, chunk),
                              !.data = {d \o chunk : d \in @}]
               ELSE [@ EXCEPT !.todo = Tail(@),
                              !.arrived = Append(@, chunk),
                              !.data = {chunk},
                              !.timers = @ + 1]]
    /\ UNCHANGED <<SERVERS, crashed, exchange, chain, inflight>>

\* a setTimeout callback of connection k runs
Timeout(k) ==
    /\ conns[k].timers > 0
    /\ conns' = [conns EXCEPT ![k] =
           [@ EXCEPT !.timers = @ - 1,
                     !.out = @ \o EchoEvents(CHOOSE d \in conns[k].data : TRUE),
                     !.firedAfter = Append(@, Len(conns[k].arrived))]]
    /\ UNCHANGED <<SERVERS, crashed, exchange, chain, inflight>>

(***************************************************************************)
(* Specifications                                                          *)
(***************************************************************************)
\* index.js has run: every fixture is in SERVERS, none is listening yet
Init ==
    /\ SERVERS = [n \in FixtureNames |-> Undefined]
    /\ crashed = FALSE
    /\ exchange = {}
    /\ chain = [c \in Clients |-> IdleChain]
    /\ inflight = [c \in Clients |-> {}]
    /\ conns = [k \in Conns |-> IdleConn]

Next ==
    \/ \E n \in FixtureNames : \E u \in ListenURLs(n) : Listening(n, u)
    \/ \E req \in Requests : HandleRequest(req)

\* the router and the registry
Spec == Init /\ [][Next]_vars

\* clients of the redirect fixture, each about to start a chain
RedirectInit ==
    /\ SERVERS = [n \in FixtureNames |-> Undefined]
    /\ crashed = FALSE
    /\ exchange = {}
    /\ chain \in [Clients -> {NewChain(u) : u \in ChainUrls}]
    /\ inflight = [c \in Clients |-> {}]
    /\ conns = [k \in Conns |-> IdleConn]

RedirectNext == \E c \in Clients : ChainStep(c)

\* the redirect fixture and its clients
RedirectSpec == RedirectInit /\ [][RedirectNext]_vars

\* every client keeps requesting while the process lives
FairRedirectSpec == RedirectSpec /\ \A c \in Clients : WF_vars(ChainStep(c))

\* every listener has bound and one client is about to start through the
\* router
RoutedInit ==
    /\ SERVERS \in ListeningTables
    /\ crashed = FALSE
    /\ exchange = {}
    /\ chain \in { [c \in Clients |-> IF c = r THEN NewChain(u) ELSE IdleChain] :
                    r \in Clients, u \in RoutedUrls }
    /\ inflight = [c \in Clients |-> {}]
    /\ conns = [k \in Conns |-> IdleConn]

RoutedNext == \E c \in Clients : RouterStep(c) \/ FixtureStep(c)

\* the router, the fixtures behind it and a client
RoutedSpec == RoutedInit /\ [][RoutedNext]_vars

\* connections to the raw echo server, each about to receive a message
RawInit ==
    /\ SERVERS = [n \in FixtureNames |-> Undefined]
    /\ crashed = FALSE
    /\ exchange = {}
    /\ chain = [c \in Clients |-> IdleChain]
    /\ inflight = [c \in Clients |-> {}]
    /\ conns \in [Conns -> {NewConn(ch) : ch \in UNION {Chunkings(m) : m \in RawMessages}}]

RawNext == \E k \in Conns : DataArrives(k) \/ Timeout(k)

\* the raw echo server and its connections
RawSpec == RawInit /\ [][RawNext]_vars

\* the event loop runs every timer that is due
FairRawSpec == RawSpec /\ \A k \in Conns : WF_vars(Timeout(k))

(***************************************************************************)
(* Properties of the redirect fixture                                      *)
(***************************************************************************)
\* the parts of a url that ends in /<digits>/<three digits>, read off its
\* characters: the index of the slash before the hop segment, the prefix
\* before it, the hop segment and the status segment
HopSlash(u) ==
    CHOOSE j \in 1..(Len(u) - 5) :
        /\ u[j] = "/"
        /\ \A k \in (j + 1)..(Len(u) - 4) : IsDigit(u[k])
UrlPrefix(u) == SubSeq(u, 1, HopSlash(u) - 1)
UrlHops(u) == SubSeq(u, HopSlash(u) + 1, Len(u) - 4)
UrlCode(u) == SubSeq(u, Len(u) - 2, Len(u))

\* the chain lengths and the status codes of three digits the clients use
ChainLengths == {parseInt(h) : h \in HopSegments} \ {0}
StatusCodes == {parseInt(c) : c \in CodeSegments} \cap 100..999

\* client c follows the chain of N hops with status C under prefix p
FollowsChain(c, p, N, C) ==
    chain[c].start = RedirectUrl(p, NumToString(N), NumToString(C))

\* the i-th response of a chain of N hops with status C under prefix p
CountdownResponse(res, i, p, N, C) ==
    /\ res.kind = "response"
    /\ res.status = C
    /\ res.body = <<>>
    /\ HasLocation(res)
    /\ res.headers.location =
           IF i < N THEN RedirectUrl(p, NumToString(N - i), NumToString(C))
           ELSE p \o <<"/">>

\* the response that ends a chain: status 200, no location, empty body
TerminalResponse(res) ==
    /\ res.kind = "response"
    /\ res.status = 200
    /\ res.body = <<>>
    /\ ~HasLocation(res)

C1_CountdownInv ==
    \A c \in Clients, p \in Prefixes, N \in ChainLengths, C \in StatusCodes :
        FollowsChain(c, p, N, C) =>
            LET h == chain[c].hist
            IN  /\ Len(h) <= N + 1
                /\ chain[c].done <=> Len(h) = N + 1
                /\ \A i \in 1..Len(h) :
                      IF i <= N
                      THEN CountdownResponse(ResponseOf(h[i].events), i, p, N, C)
                      ELSE /\ h[i].url = p \o <<"/">>
                           /\ TerminalResponse(ResponseOf(h[i].events))

\* C1: a client that starts at <prefix>/N/C (N >= 1, C a status code of
\* three digits) and keeps requesting the returned location receives exactly
\* N redirects with status C, whose locations count the hop number down by
\* one to <prefix>/1/C and then give <prefix>/; the (N+1)-th request, to
\* <prefix>/, is answered 200 with an empty body and ends the chain; the
\* chain ends unless the process has died under another client.
C1_RedirectCountdown ==
    /\ []C1_CountdownInv
    /\ \A c \in Clients : <>(chain[c].done \/ crashed)

\* a chain of three hops under /a/b has run to its end
C1_Witness ==
    \E c \in Clients :
        /\ FollowsChain(c, <<"/", "a", "/", "b">>, 3, 301)
        /\ chain[c].done
        /\ Len(chain[c].hist) = 4
        /\ ~crashed

\* C2: every request whose url matches <prefix>/<hops>/<statusCode> with
\* hops > 1 is answered with status statusCode and the location
\* <prefix>/<hops-1>/<statusCode>.
C2_NonTerminalHop ==
    \A c \in Clients : \A i \in 1..Len(chain[c].hist) :
        LET u == chain[c].hist[i].url
            res == ResponseOf(chain[c].hist[i].events)
        IN  (TestRedirect(u) /\ parseInt(UrlHops(u)) > 1) =>
                /\ res.kind = "response"
                /\ res.status = parseInt(UrlCode(u))
                /\ HasLocation(res)
                /\ res.headers.location =
                       RedirectUrl(UrlPrefix(u),
                                   NumToString(parseInt(UrlHops(u)) - 1),
                                   UrlCode(u))

\* C3: every request whose url matches the pattern with hops <= 1 is
\* answered with status statusCode and the location <prefix>/ (exactly / for
\* an empty prefix), which does not match the pattern.
C3_TerminalHop ==
    \A c \in Clients : \A i \in 1..Len(chain[c].hist) :
        LET u == chain[c].hist[i].url
            res == ResponseOf(chain[c].hist[i].events)
        IN  (TestRedirect(u) /\ parseInt(UrlHops(u)) <= 1) =>
                /\ res.kind = "response"
                /\ res.status = parseInt(UrlCode(u))
                /\ HasLocation(res)
                /\ res.headers.location = UrlPrefix(u) \o <<"/">>
                /\ (UrlPrefix(u) = <<>> => res.headers.location = <<"/">>)
                /\ ~TestRedirect(res.headers.location)

(***************************************************************************)
(* Properties of the dispatch router                                       *)
(***************************************************************************)
\* the request names a registered fixture in its target-server header
Recognized(req) == TargetServerHeader(req) \in FixtureNames

\* the patterns of the classifier, read off the tokens of the path
EndsInHopsAndCode(path) ==
    LET t == Split(path, "/")
    IN  /\ Len(t) >= 3
        /\ Len(t[Len(t)]) = 3
        /\ Len(t[Len(t) - 1]) >= 1
        /\ \A k \in 1..3 : IsDigit(t[Len(t)][k])
        /\ \A k \in 1..Len(t[Len(t) - 1]) : IsDigit(t[Len(t) - 1][k])

IsBytesPath(path) ==
    LET t == Split(path, "/")
    IN  /\ Len(t) = 3
        /\ t[1] = <<>>
        /\ t[2] = <<"b", "y", "t", "e", "s">>
        /\ Len(t[3]) >= 1
        /\ \A k \in 1..Len(t[3]) : IsDigit(t[3][k])

\* the fixture the decision order gives a path: raw, graphql, redirect,
\* bytes, the first that matches
PathClass(path) ==
    IF path = RawPath \/ StartsWith(path, RawPrefix) THEN "raw"
    ELSE IF path = GraphQLPath THEN "graphql"
    ELSE IF EndsInHopsAndCode(path) THEN "redirect"
    ELSE IF IsBytesPath(path) THEN "bytes"
    ELSE "default"

\* the fixture a request is classified to
Classified(req) ==
    IF Recognized(req) THEN TargetServerHeader(req) ELSE PathClass(req.url)

CountOf(events, ev) == Cardinality({i \in 1..Len(events) : events[i].ev = ev})

\* the request was forwarded, once, to base URL url and nothing was written
ForwardedTo(x, url) ==
    x.events = <<[ev |-> "proxy.web", target |-> url, req |-> x.req]>>

\* the request was answered, once, with the 200 JSON echo of its url, method
\* and headers and was not forwarded
Echoed(x) ==
    x.events =
        <<[ev |-> "writeHead", status |-> 200,
           headers |-> [h \in {"content-type"} |-> "application/json"]],
          [ev |-> "end",
           body |-> <<[key |-> "url", value |-> x.req.url],
                      [key |-> "method", value |-> x.req.method],
                      [key |-> "headers", value |-> x.req.headers]>>]>>

\* the request went where fixture f is: forwarded to f's URL when f has
\* one, echoed when it has none
RoutedTo(x, f) ==
    IF SERVERS[f] # Undefined THEN ForwardedTo(x, SERVERS[f]) ELSE Echoed(x)

\* what a call of the listener decided: the base URL it forwarded to, or
\* Undefined for the echo
Decision(events) ==
    IF events[1].ev = "proxy.web" THEN events[1].target ELSE Undefined

AllListening == \A n \in FixtureNames : SERVERS[n] # Undefined

\* C4: a request whose target-server header names a registered fixture goes
\* to that fixture whatever its path, also when the path matches the raw,
\* graphql, redirect or bytes heuristic of another fixture.
C4_HeaderOverride ==
    \A x \in exchange :
        Recognized(x.req) => RoutedTo(x, TargetServerHeader(x.req))

\* /raw/3/301 with target-server: graphql was forwarded to the graphql fixture
C4_Witness ==
    \E x \in exchange :
        /\ AllListening
        /\ x.req.url = RawPrefix \o <<"3", "/", "3", "0", "1">>
        /\ TargetServerHeader(x.req) = "graphql"
        /\ ForwardedTo(x, SERVERS["graphql"])

\* C5: without a recognized target-server header the path decides, raw
\* before graphql before redirect before bytes, the first match winning.
C5_PathPrecedence ==
    \A x \in exchange :
        (~Recognized(x.req) /\ PathClass(x.req.url) # "default") =>
            RoutedTo(x, PathClass(x.req.url))

\* C6: a path that does not start with /raw, is not /graphql and matches
\* neither the redirect nor the bytes pattern, in a request without a
\* recognized target-server header, is classified default: nothing is
\* forwarded and the echo is written.
C6_DefaultClassification ==
    \A x \in exchange :
        ( /\ ~Recognized(x.req)
          /\ ~StartsWith(x.req.url, RawPath)
          /\ x.req.url # GraphQLPath
          /\ ~EndsInHopsAndCode(x.req.url)
          /\ ~IsBytesPath(x.req.url) )
        => (CountOf(x.events, "proxy.web") = 0 /\ Echoed(x))

\* /x/bytes/5 was echoed while every fixture was listening
C6_Witness ==
    \E x \in exchange :
        /\ AllListening
        /\ x.req.url = <<"/", "x">> \o BytesPrefix \o <<"5">>
        /\ ~Recognized(x.req)
        /\ Echoed(x)

\* C7: the router decides a request for p?q as it decides the request for p.
C7_QueryStripped ==
    \A x \in exchange :
        Decision(x.events) =
            Decision(responseHandler([x.req EXCEPT !.url = StripQuery(@)]))

\* C8: a request classified to a fixture that has no URL yet is neither
\* forwarded nor failed: it is answered with the 200 JSON echo.
C8_RegistryMiss ==
    \A x \in exchange :
        (Classified(x.req) # "default" /\ SERVERS[Classified(x.req)] = Undefined)
            => (CountOf(x.events, "proxy.web") = 0 /\ Echoed(x))

\* /raw was echoed while the raw fixture was not listening and the others were
C8_Witness ==
    \E x \in exchange :
        /\ x.req.url = RawPath
        /\ x.req.headers = NoHeaders
        /\ SERVERS["raw"] = Undefined
        /\ \A n \in FixtureNames \ {"raw"} : SERVERS[n] # Undefined
        /\ Echoed(x)

\* C9: a target-server header that names no registered fixture has no
\* effect: the decision is that for the same request without the header.
C9_UnrecognizedIgnored ==
    \A x \in exchange :
        ~Recognized(x.req) =>
            Decision(x.events) =
                Decision(responseHandler([x.req EXCEPT !.headers = NoHeaders]))

\* C10: a request classified default is answered once with status 200,
\* content-type application/json and the JSON of its url, method and
\* headers, and is not forwarded; every request is either forwarded once or
\* echoed once, never both and never neither.
C10_DefaultEcho ==
    \A x \in exchange :
        /\ Classified(x.req) = "default" => Echoed(x)
        /\ \/ /\ CountOf(x.events, "proxy.web") = 1
              /\ CountOf(x.events, "writeHead") = 0
              /\ CountOf(x.events, "end") = 0
           \/ /\ CountOf(x.events, "proxy.web") = 0
              /\ CountOf(x.events, "writeHead") = 1
              /\ CountOf(x.events, "end") = 1

\* HEAD /a/b with an unknown target-server value was echoed, and /graphql
\* could have been forwarded
C10_Witness ==
    \E x \in exchange :
        /\ AllListening
        /\ x.req.url = <<"/", "a", "/", "b">>
        /\ x.req.method = "HEAD"
        /\ TargetServerHeader(x.req) = "unknown"
        /\ Classified(x.req) = "default"
        /\ Echoed(x)

(***************************************************************************)
(* Further properties of the redirect fixture                              *)
(***************************************************************************)
\* the requests the clients have made so far, with their effects
Served ==
    UNION {{chain[c].hist[i] : i \in 1..Len(chain[c].hist)} : c \in Clients}

\* C11: every request the redirect fixture receives, whether or not its
\* path matches the pattern, emits exactly one hit event carrying that
\* request, before anything of the response is written.
C11_HitNotification ==
    \A h \in Served :
        /\ CountOf(h.events, "hit") = 1
        /\ h.events[1] = [ev |-> "hit", req |-> ClientRequest(h.url)]
        /\ \A j \in 1..Len(h.events) :
               h.events[j].ev \in {"writeHead", "end"} => j > 1

\* a request off the pattern and a request on it have both been hit and
\* answered
C11_Witness ==
    /\ \E h \in Served :
          /\ h.url = <<"/", "a", "/", "b">>
          /\ h.events[1].ev = "hit"
          /\ h.events[Len(h.events)].ev = "end"
    /\ \E h \in Served :
          /\ h.url = <<"/", "a", "/", "2", "/", "3", "0", "1">>
          /\ h.events[1].ev = "hit"
          /\ h.events[2].ev = "writeHead"

\* C12: a request whose path does not end in /<digits>/<three digits> is
\* answered 200 with an empty body and no location header; it is no 4xx and
\* nothing is thrown.
C12_MalformedIsTerminal ==
    \A h \in Served :
        ~EndsInHopsAndCode(h.url) =>
            /\ ~Threw(h.events)
            /\ CountOf(h.events, "writeHead") = 0
            /\ CountOf(h.events, "end") = 1
            /\ TerminalResponse(ResponseOf(h.events))

\* /a/3/3011 and /a/3/301?x were answered with the empty 200
C12_Witness ==
    /\ \E h \in Served :
          /\ h.url = <<"/", "a", "/", "3", "/", "3", "0", "1", "1">>
          /\ TerminalResponse(ResponseOf(h.events))
    /\ \E h \in Served :
          /\ h.url = <<"/", "a", "/", "3", "/", "3", "0", "1", "?", "x">>
          /\ TerminalResponse(ResponseOf(h.events))

\* C13: a path counts as a redirect request only with hopsRemaining >= 1; a
\* request with hopsRemaining = 0 (/a/0/301) is terminal: whatever answers
\* it is the empty 200 without a location header.
C13_ZeroHopsTerminal ==
    \A h \in Served :
        ( /\ EndsInHopsAndCode(h.url)
          /\ parseInt(UrlHops(h.url)) = 0
          /\ ResponseOf(h.events).kind = "response" )
        => TerminalResponse(ResponseOf(h.events))

\* what a client that starts at url u receives when it is the only client:
\* the requests it makes with their effects, to the first response without
\* a location
RECURSIVE AloneRun(_)
AloneRun(u) ==
    LET events == redirectHandler(ClientRequest(u))
        res == ResponseOf(events)
    IN  <<[url |-> u, events |-> events]>>
            \o (IF HasLocation(res) THEN AloneRun(res.headers.location) ELSE <<>>)

\* the runs of the starting urls, computed once
AloneRuns == [u \in ChainUrls |-> AloneRun(u)]

\* C16: the response to a request depends on its path alone, and in every
\* interleaving of the requests of several chains each chain receives
\* exactly the responses it receives when run alone: what it has received
\* is always the beginning of its run alone, and all of it once the chain
\* can receive no more.
C16_StatelessRedirect ==
    \A c \in Clients :
        LET alone == AloneRuns[chain[c].start]
            h == chain[c].hist
        IN  /\ Len(h) <= Len(alone)
            /\ h = SubSeq(alone, 1, Len(h))
            /\ (chain[c].done \/ crashed) => h = alone

\* C19: a request whose path matches the pattern with hops > 1, whatever
\* its three status digits (leading zeros included), is answered with that
\* status and a location that matches the pattern again with the same
\* status segment.
C19_ChainStaysInPattern ==
    \A h \in Served :
        (TestRedirect(h.url) /\ parseInt(UrlHops(h.url)) > 1) =>
            LET res == ResponseOf(h.events)
            IN  /\ res.kind = "response"
                /\ res.status = parseInt(UrlCode(h.url))
                /\ HasLocation(res)
                /\ TestRedirect(res.headers.location)
                /\ UrlCode(res.headers.location) = UrlCode(h.url)

(***************************************************************************)
(* The registry                                                            *)
(***************************************************************************)
\* C14: a fixture's URL is set only when its listener binds and never
\* changes once set; handling a request, whatever it is, changes no entry
\* of the table and adds or removes none.
C14_RegistryReadOnly ==
    [][ /\ DOMAIN SERVERS' = DOMAIN SERVERS
        /\ \A n \in FixtureNames :
               SERVERS[n] # Undefined => SERVERS'[n] = SERVERS[n]
        /\ SERVERS' # SERVERS =>
               \E n \in FixtureNames :
                   /\ SERVERS[n] = Undefined
                   /\ SERVERS'[n] \in ListenURLs(n)
                   /\ \A o \in FixtureNames \ {n} : SERVERS'[o] = SERVERS[o]
        /\ exchange' # {} => SERVERS' = SERVERS ]_vars

\* a request was forwarded after every fixture had bound
C14_Witness ==
    /\ AllListening
    /\ \E x \in exchange : CountOf(x.events, "proxy.web") = 1

(***************************************************************************)
(* The bytes fixture behind the router                                     *)
(***************************************************************************)
\* the segment after /bytes/
BytesSegment(path) == SubSeq(path, Len(BytesPrefix) + 1, Len(path))

\* the requests a client has made through the router, each with what the
\* router did and what the fixture it was forwarded to did
Routed ==
    UNION {{chain[c].hist[i] : i \in 1..Len(chain[c].hist)} : c \in Clients}

\* C15: every request whose path is /bytes/<n>, n one or more decimal
\* digits, is forwarded by the router to the bytes fixture, which answers
\* with status 200 and a body of exactly n bytes.
C15_BytesResponseSize ==
    \A h \in Routed :
        IsBytesPath(h.url) =>
            /\ h.router = <<[ev |-> "proxy.web", target |-> SERVERS["bytes"],
                             req |-> ClientRequest(h.url)]>>
            /\ ResponseOf(h.events).kind = "response"
            /\ ResponseOf(h.events).status = 200
            /\ Len(ResponseOf(h.events).body) = DigitsValue(BytesSegment(h.url), 0)

\* /bytes/010 has been answered with ten bytes
C15_Witness ==
    \E h \in Routed :
        /\ h.url = BytesPrefix \o <<"0", "1", "0">>
        /\ CountOf(h.events, "write") = 1
        /\ Len(ResponseOf(h.events).body) = 10

(***************************************************************************)
(* Redirect chains behind the router                                       *)
(***************************************************************************)
\* the router's JSON echo of the request for url u
RouterEcho(u) ==
    <<[ev |-> "writeHead", status |-> 200,
       headers |-> [h \in {"content-type"} |-> "application/json"]],
      [ev |-> "end",
       body |-> <<[key |-> "url", value |-> u],
                  [key |-> "method", value |-> "GET"],
                  [key |-> "headers", value |-> NoHeaders]>>]>>

\* the requests of a chain the redirect fixture was notified of
HitsOf(hist) == {i \in 1..Len(hist) : CountOf(hist[i].events, "hit") > 0}

\* C20: when a chain starting at <prefix>/N/C, prefix not under /raw and no
\* target-server header, is followed through the router, each of its N
\* non-terminal requests is forwarded to the redirect fixture, which is
\* notified of it once and answers with the next location; the final
\* request for <prefix>/ is answered by the router's JSON echo and never
\* reaches the redirect fixture, which so sees exactly N hits.
C20_ChainThroughRouter ==
    \A c \in Clients, p \in Prefixes, N \in ChainLengths, C \in StatusCodes :
        FollowsChain(c, p, N, C) =>
            LET h == chain[c].hist
            IN  /\ Len(h) <= N + 1
                /\ chain[c].done <=> Len(h) = N + 1
                /\ \A i \in 1..Len(h) :
                       IF i <= N
                       THEN /\ h[i].url =
                                   RedirectUrl(p, NumToString(N - i + 1), NumToString(C))
                            /\ h[i].router =
                                   <<[ev |-> "proxy.web", target |-> SERVERS["redirect"],
                                      req |-> ClientRequest(h[i].url)]>>
                            /\ CountOf(h[i].events, "hit") = 1
                            /\ CountdownResponse(ResponseOf(h[i].events), i, p, N, C)
                       ELSE /\ h[i].url = p \o <<"/">>
                            /\ h[i].router = RouterEcho(h[i].url)
                            /\ h[i].events = <<>>
                /\ HitsOf(h) = 1..(IF Len(h) <= N THEN Len(h) ELSE N)

\* a chain of three hops under /a/b has been followed to its end through
\* the router: three requests forwarded, the fourth echoed
C20_Witness ==
    \E c \in Clients :
        /\ FollowsChain(c, <<"/", "a", "/", "b">>, 3, 301)
        /\ chain[c].done
        /\ Len(chain[c].hist) = 4
        /\ HitsOf(chain[c].hist) = 1..3
        /\ chain[c].hist[4].router = RouterEcho(<<"/", "a", "/", "b", "/">>)

(***************************************************************************)
(* The raw echo server                                                     *)
(***************************************************************************)
\* the connections that have been answered
Answered == {k \in Conns : Len(conns[k].firedAfter) > 0}

\* the text of the raw-request header lines written on connection k
RawRequestHeaders(k) ==
    LET out == conns[k].out
    IN  {out[i].text : i \in {j \in 1..Len(out) :
                                 /\ out[j].ev = "write"
                                 /\ out[j].pre = "raw-request: "}}

\* the writes on connection k that follow the blank line of a response: the
\* message body
BodyWrites(k) ==
    LET out == conns[k].out
    IN  {i \in 1..Len(out) :
            /\ out[i].ev = "write"
            /\ out[i].pre = ""
            /\ out[i].post = ""}

\* the method of a message is HEAD
IsHead(msg) == StartsWith(msg, HEAD \o <<" ">>)

\* what had arrived on connection k when its first callback ran
EchoedData(k) == Concat(SubSeq(conns[k].arrived, 1, conns[k].firedAfter[1]))

\* C17: a connection whose request had arrived whole when the response was
\* written: when the request's method is HEAD, whatever its path, nothing
\* is written after the blank line and the raw-request header carries the
\* request; for any other method the body written is the request.
C17_HeadHasNoBody ==
    \A k \in Answered :
        LET msg == Concat(conns[k].arrived \o conns[k].todo)
        IN  EchoedData(k) = msg =>
                IF IsHead(msg)
                THEN /\ BodyWrites(k) = {}
                     /\ RawRequestHeaders(k) = {JSONStringify(msg)}
                ELSE /\ Cardinality(BodyWrites(k)) = 1
                     /\ \A i \in BodyWrites(k) : conns[k].out[i].text = msg

\* the timers connection k has started: those pending and those that ran
Started(k) == conns[k].timers + Len(conns[k].firedAfter)

\* connection k's first timer has run after the chunks delivered before it:
\* one status line, the raw-request header with those chunks, the same
\* chunks as body unless they are a HEAD request's, and one end
AnsweredOnce(k) ==
    LET out == conns[k].out
        data == EchoedData(k)
    IN  /\ Len(conns[k].firedAfter) = 1
        /\ CountOf(out, "end") = 1
        /\ out[Len(out)].ev = "end"
        /\ Cardinality({i \in 1..Len(out) :
               out[i].ev = "write" /\ out[i].pre = "HTTP/1.1 200 ok\r\n"}) = 1
        /\ RawRequestHeaders(k) = {JSONStringify(data)}
        /\ \/ BodyWrites(k) = {} /\ IsHead(data)
           \/ /\ Cardinality(BodyWrites(k)) = 1
              /\ \A i \in BodyWrites(k) : out[i].text = data

\* C18 (what holds at every moment): a connection has started one timer
\* once a chunk has arrived and none before; its buffer is the chunks it
\* has received itself, in order; until the timer runs nothing is written,
\* and once it has run there is one response, with the chunks that had
\* arrived by then, and one end.
C18_Inv ==
    \A k \in Conns :
        /\ Started(k) = IF conns[k].arrived = <<>> THEN 0 ELSE 1
        /\ conns[k].data =
               IF conns[k].arrived = <<>> THEN {} ELSE {Concat(conns[k].arrived)}
        /\ IF k \in Answered THEN AnsweredOnce(k) ELSE conns[k].out = <<>>

====
